---- MODULE Spec2Model ----
(***************************************************************************)
(* RingBufCPP<T, Size>: a fixed-capacity ring (FIFO) buffer                *)
(* (src/RingBufCPP.h), and the calls the example program makes on it       *)
(* (src/examples_no_arduino/test.cpp).                                     *)
(*                                                                         *)
(* Every public member function is modelled as an operator that computes   *)
(* what the function's body computes from the current object state, and    *)
(* one action per member function applies it as a whole call (the body     *)
(* runs between RB_ATOMIC_START and RB_ATOMIC_END).                        *)
(***************************************************************************)
EXTENDS Integers, Sequences, FiniteSets, TLC

\* ---------------------------------------------------------------- bounds

\* Largest template argument Size explored (capacities 1..MaxSize).
MaxSize == 3

\* Number of distinct element values (the element type T is 1..NumValues).
NumValues == 3

\* Most pushes accepted in a producer/consumer run.
MaxLog == 4

\* ------------------------------------------------------------- constants

\* Width of size_t in bits (typedef size_t size_type; sizeof is 8 in the
\* g++ x86-64 build of src/); unsigned arithmetic is modulo 2^SIZE_BITS.
SIZE_BITS == 64

\* TLC's integers end below 2^31, so 2^64 cannot be written. SIZE_MOD stands
\* for 2^64: a size_type value v below 2^29 is written v, and a value v
\* within 2^29 of 2^64 is written SIZE_MOD - (2^64 - v). Written values
\* compare, add and subtract as the values they stand for; the remainder of
\* a division is taken by UMod.
SIZE_MOD == 2 ^ 30

\* (size_type)-1, that is 2^64 - 1.
SIZE_MAX == SIZE_MOD - 1

\* The null pointer peek() returns; a non-null pointer &_buf[i] is the slot
\* number i.
nullptr == -1

Values == 1 .. NumValues

\* Arguments given to peek(): every index up to the largest capacity, and
\* the largest size_t.
PeekIndices == (0 .. MaxSize) \cup {SIZE_MAX}

\* ----------------------------------------------------------------- state

VARIABLES
    Size,         \* template parameter Size (fixed at construction)
    buf,          \* _buf[Size]
    head,         \* _head
    numElements,  \* _numElements
    call,         \* the last completed call: name, arguments, results
    phase,        \* position of the calling program: "free", "fill", "else", "drain",
                  \* "peekloop", "pullloop", "drained", "done"; with an
                  \* interrupt handler: "mix", "isr_push", "isr_pop"
    sent,         \* values added by the fill loop (seen by the peek loop), in order
    rcvd,         \* values delivered by the drain loop, in order (0: pull failed)
    tmp,          \* main's int tmp
    ie,           \* the CPU's interrupt-enable flag
    saved,        \* interrupt-enable state saved by RB_ATOMIC_START
    pc,           \* mainline's position inside the member function it runs
    m,            \* mainline's call in progress: arguments, locals, results
    lin,          \* state and results the call in progress has as a whole
    acc           \* the last access to _buf, _head or _numElements since
                  \* mainline's latest call began

rb == <<Size, buf, head, numElements>>

prog == <<phase, sent, rcvd, tmp>>

cpu == <<ie, saved, pc, m, lin, acc>>

vars == <<Size, buf, head, numElements, call, phase, sent, rcvd, tmp,
          ie, saved, pc, m, lin, acc>>

\* size_t arithmetic
UAdd(a, b) == (a + b) % SIZE_MOD

USub(a, b) == (a - b + SIZE_MOD) % SIZE_MOD

\* 2^e modulo n.
RECURSIVE Pow2Mod(_, _)
Pow2Mod(e, n) == IF e = 0 THEN 1 % n ELSE (2 * Pow2Mod(e - 1, n)) % n

\* a % n in size_t: of a itself when a is written as itself, of
\* 2^SIZE_BITS - (SIZE_MOD - a) when a stands for a value near 2^SIZE_BITS.
UMod(a, n) ==
    IF a < SIZE_MOD \div 2
    THEN a % n
    ELSE (Pow2Mod(SIZE_BITS, n) + n - ((SIZE_MOD - a) % n)) % n

\* ------------------------------------------------- capacity and size queries

max_size == Size

size == numElements

\* empty() with the comparison off by one.
empty_off_by_one == size <= 1

empty == size = 0

\* full() with the comparison off by one.
full_off_by_one == size > max_size

full == size >= max_size

\* tail_index() taking a full buffer to start at slot 0.
tail_index_full_at_zero ==
    IF full THEN 0
    ELSE IF head >= numElements THEN USub(head, numElements)
         ELSE USub(UAdd(max_size, head), numElements)

\* tail_index() without the head >= count decision: the unsigned subtraction
\* wraps when head < count.
tail_index_unsigned_wrap ==
    IF full THEN head ELSE USub(head, numElements)

tail_index ==
    IF full THEN head
    ELSE IF head >= numElements THEN USub(head, numElements)
         ELSE USub(UAdd(max_size, head), numElements)

\* ---------------------------------------------------------------- modifiers

\* clear(): the object state it leaves.
clear == [head |-> 0, numElements |-> 0]

\* push() storing the element after advancing head (_buf[_head] = obj
\* behind the wrap-around).
push_store_after_advance(obj, force) ==
    LET space == ~full
    IN  IF space \/ force
        THEN LET h1 == UAdd(head, 1)
                 h2 == IF h1 >= max_size THEN 0 ELSE h1
             IN  [buf |-> [buf EXCEPT ![h2] = obj],
                  head |-> h2,
                  numElements |-> IF space THEN UAdd(numElements, 1)
                                  ELSE numElements,
                  ret |-> TRUE]
        ELSE [buf |-> buf, head |-> head, numElements |-> numElements,
              ret |-> FALSE]

\* push() wrapping head one step late (_head > max_size()).
push_wrap_late(obj, force) ==
    LET space == ~full
    IN  IF space \/ force
        THEN LET h1 == UAdd(head, 1)
             IN  [buf |-> [buf EXCEPT ![head] = obj],
                  head |-> IF h1 > max_size THEN 0 ELSE h1,
                  numElements |-> IF space THEN UAdd(numElements, 1)
                                  ELSE numElements,
                  ret |-> TRUE]
        ELSE [buf |-> buf, head |-> head, numElements |-> numElements,
              ret |-> FALSE]

\* push() that, forced on a full buffer, stores the element without
\* advancing head (the newest element is replaced instead of the oldest).
push_force_keeps_head(obj, force) ==
    LET space == ~full
    IN  IF space \/ force
        THEN LET h1 == UAdd(head, 1)
             IN  [buf |-> [buf EXCEPT ![head] = obj],
                  head |-> IF ~space THEN head
                           ELSE IF h1 >= max_size THEN 0 ELSE h1,
                  numElements |-> IF space THEN UAdd(numElements, 1)
                                  ELSE numElements,
                  ret |-> TRUE]
        ELSE [buf |-> buf, head |-> head, numElements |-> numElements,
              ret |-> FALSE]

\* push() storing the element before it checks for space.
push_store_before_check(obj, force) ==
    LET space == ~full
    IN  IF space \/ force
        THEN LET h1 == UAdd(head, 1)
             IN  [buf |-> [buf EXCEPT ![head] = obj],
                  head |-> IF h1 >= max_size THEN 0 ELSE h1,
                  numElements |-> IF space THEN UAdd(numElements, 1)
                                  ELSE numElements,
                  ret |-> TRUE]
        ELSE [buf |-> [buf EXCEPT ![head] = obj], head |-> head,
              numElements |-> numElements, ret |-> FALSE]

\* push(obj, force): the object state it leaves and the value it returns.
push(obj, force) ==
    LET space == ~full
    IN  IF space \/ force
        THEN LET h1 == UAdd(head, 1)
             IN  [buf |-> [buf EXCEPT ![head] = obj],
                  head |-> IF h1 >= max_size THEN 0 ELSE h1,
                  numElements |-> IF space THEN UAdd(numElements, 1)
                                  ELSE numElements,
                  ret |-> TRUE]
        ELSE [buf |-> buf, head |-> head, numElements |-> numElements,
              ret |-> FALSE]

add(obj, force) == push(obj, force)

\* peek() without the modulus.
peek_no_modulus(index) ==
    IF index < size
    THEN UAdd(tail_index, index)
    ELSE nullptr

\* peek() with the bounds check off by one (index <= size()).
peek_off_by_one(index) ==
    IF index <= size
    THEN UMod(UAdd(tail_index, index), max_size)
    ELSE nullptr

\* peek(index): the pointer it returns.
peek(index) ==
    IF index < size
    THEN UMod(UAdd(tail_index, index), max_size)
    ELSE nullptr

\* poll(destination) copying the tail slot before the emptiness check.
poll_copy_first(d0) ==
    IF ~empty
    THEN [destination |-> buf[tail_index],
          numElements |-> USub(numElements, 1),
          ret |-> TRUE]
    ELSE [destination |-> buf[tail_index], numElements |-> numElements,
          ret |-> FALSE]

\* poll(destination) copying the newest element (the slot before head)
\* instead of the oldest.
poll_newest(d0) ==
    IF ~empty
    THEN [destination |-> buf[(head + max_size - 1) % max_size],
          numElements |-> USub(numElements, 1),
          ret |-> TRUE]
    ELSE [destination |-> d0, numElements |-> numElements, ret |-> FALSE]

\* poll(destination): d0 is the content of destination at the call.
poll(d0) ==
    IF ~empty
    THEN [destination |-> buf[tail_index],
          numElements |-> USub(numElements, 1),
          ret |-> TRUE]
    ELSE [destination |-> d0, numElements |-> numElements, ret |-> FALSE]

\* poll() without the emptiness check.
poll_discard_unchecked ==
    [numElements |-> USub(numElements, 1), ret |-> TRUE]

\* poll(): the element is discarded.
poll_discard ==
    IF ~empty
    THEN [numElements |-> USub(numElements, 1), ret |-> TRUE]
    ELSE [numElements |-> numElements, ret |-> FALSE]

\* pull(destination): hasDest is destination != nullptr, d0 is *destination
\* at the call (0 when there is no destination).
pull(hasDest, d0) ==
    IF hasDest THEN poll(d0)
    ELSE [destination |-> 0,
          numElements |-> poll_discard.numElements,
          ret |-> poll_discard.ret]

\* ------------------------------------------------------------------- calls

\* The record of a completed call. Fields a call does not have are 0, FALSE
\* or nullptr: obj/force (push, add), index/ptr (peek), hasDest (pull),
\* dest0/dest: the destination's content before and after (poll, pull).
Call(op, obj, force, index, hasDest, dest0, dest, ret, ptr) ==
    [op |-> op, obj |-> obj, force |-> force, index |-> index,
     hasDest |-> hasDest, dest0 |-> dest0, dest |-> dest,
     ret |-> ret, ptr |-> ptr]

\* Mainline's call record. Fields a call does not have are 0, FALSE or
\* nullptr. ie0 is the interrupt-enable flag at the call, space and ret the
\* locals of push and poll, ptr the local ret of peek, dest the destination's
\* content, n the value of size().
MCall(op, obj, force, index, d0, ie0) ==
    [op |-> op, obj |-> obj, force |-> force, index |-> index, d0 |-> d0,
     ie0 |-> ie0, space |-> FALSE, ret |-> FALSE, ptr |-> nullptr,
     dest |-> d0, n |-> 0]

\* What a call leaves as a whole: object state and results.
Whole(b, h, n, ret, ptr, dest) ==
    [buf |-> b, head |-> h, numElements |-> n, ret |-> ret, ptr |-> ptr,
     dest |-> dest]

\* No call in progress.
NoWhole == Whole(<<>>, 0, 0, FALSE, nullptr, 0)

\* No call made yet, interrupts enabled.
CpuInit ==
    /\ ie = TRUE
    /\ saved = TRUE
    /\ pc = "idle"
    /\ m = MCall("none", 0, FALSE, 0, 0, TRUE)
    /\ lin = NoWhole
    /\ acc = [op |-> "none", held |-> TRUE]

\* RingBufCPP(): clear() on storage whose content is indeterminate.
Init ==
    /\ Size \in 1 .. MaxSize
    /\ buf \in [0 .. Size - 1 -> Values]
    /\ head = clear.head
    /\ numElements = clear.numElements
    /\ call = Call("RingBufCPP", 0, FALSE, 0, FALSE, 0, 0, FALSE, nullptr)
    /\ phase = "free"
    /\ sent = <<>>
    /\ rcvd = <<>>
    /\ tmp = -1
    /\ CpuInit

DoClear ==
    /\ head' = clear.head
    /\ numElements' = clear.numElements
    /\ call' = Call("clear", 0, FALSE, 0, FALSE, 0, 0, FALSE, nullptr)
    /\ UNCHANGED <<Size, buf>>

DoPush(obj, force) ==
    LET r == push(obj, force)
    IN  /\ buf' = r.buf
        /\ head' = r.head
        /\ numElements' = r.numElements
        /\ call' = Call("push", obj, force, 0, FALSE, 0, 0, r.ret, nullptr)
        /\ UNCHANGED Size

DoAdd(obj, force) ==
    LET r == add(obj, force)
    IN  /\ buf' = r.buf
        /\ head' = r.head
        /\ numElements' = r.numElements
        /\ call' = Call("add", obj, force, 0, FALSE, 0, 0, r.ret, nullptr)
        /\ UNCHANGED Size

DoPeek(index) ==
    /\ call' = Call("peek", 0, FALSE, index, FALSE, 0, 0, FALSE, peek(index))
    /\ UNCHANGED <<Size, buf, head, numElements>>

DoPoll(d0) ==
    LET r == poll(d0)
    IN  /\ numElements' = r.numElements
        /\ call' = Call("poll", 0, FALSE, 0, TRUE, d0, r.destination, r.ret,
                        nullptr)
        /\ UNCHANGED <<Size, buf, head>>

DoPollDiscard ==
    LET r == poll_discard
    IN  /\ numElements' = r.numElements
        /\ call' = Call("poll_discard", 0, FALSE, 0, FALSE, 0, 0, r.ret,
                        nullptr)
        /\ UNCHANGED <<Size, buf, head>>

DoPull(hasDest, d0) ==
    LET r == pull(hasDest, d0)
    IN  /\ numElements' = r.numElements
        /\ call' = Call("pull", 0, FALSE, 0, hasDest, d0, r.destination,
                        r.ret, nullptr)
        /\ UNCHANGED <<Size, buf, head>>

\* Calls in any order (phase "free").
Clear == phase = "free" /\ DoClear /\ UNCHANGED <<prog, cpu>>

Push == phase = "free" /\ (\E obj \in Values, force \in BOOLEAN : DoPush(obj, force))
        /\ UNCHANGED <<prog, cpu>>

Add == phase = "free" /\ (\E obj \in Values, force \in BOOLEAN : DoAdd(obj, force))
       /\ UNCHANGED <<prog, cpu>>

Peek == phase = "free" /\ (\E index \in PeekIndices : DoPeek(index))
        /\ UNCHANGED <<prog, cpu>>

Poll == phase = "free" /\ (\E d0 \in Values : DoPoll(d0)) /\ UNCHANGED <<prog, cpu>>

PollDiscard == phase = "free" /\ DoPollDiscard /\ UNCHANGED <<prog, cpu>>

Pull == /\ phase = "free"
        /\ \/ \E d0 \in Values : DoPull(TRUE, d0)
           \/ DoPull(FALSE, 0)
        /\ UNCHANGED <<prog, cpu>>

\* The caller's fill loop: starting with the buffer empty, q.add(tmp) without
\* force, with nothing else in between, whether or not the buffer is full.
\* tmp (1000000 + i * 1000 + q.size()) differs from every value added
\* before; a rejected value is stored nowhere, so any value stands for it.
\* A rejected add takes the loop to its else branch. For the capacities up
\* to 4 that add is the one of iteration i = Size, so the branch of
\* i == 4 || i == 6 after an accepted add is not entered.
FillAdd ==
    /\ \/ phase = "free" /\ empty
       \/ phase = "fill"
    /\ \E obj \in Values :
          /\ DoAdd(obj, FALSE)
          /\ call'.ret => obj \notin {sent[i] : i \in 1 .. Len(sent)}
          /\ tmp' = obj
          /\ sent' = IF call'.ret THEN Append(sent, obj) ELSE sent
          /\ phase' = IF call'.ret THEN "fill" ELSE "else"
    /\ UNCHANGED <<rcvd, cpu>>

\* The peek loop of the else branch: q.peek(j) for j = 0, 1, ... until it
\* returns null; j is 0 after the rejected add and one more than the index
\* of the peek before otherwise.
FillElsePeek ==
    /\ phase = "else"
    /\ \/ call.op = "add"
       \/ call.op = "peek" /\ call.ptr # nullptr
    /\ DoPeek(IF call.op = "peek" THEN UAdd(call.index, 1) ELSE 0)
    /\ UNCHANGED <<prog, cpu>>

\* The else branch after its peek loop: q.pull(&tmp), tmp holding the
\* rejected value, and break. The peek loop after the fill loop follows, its
\* list of values seen empty.
FillElsePull ==
    /\ phase = "else"
    /\ call.op = "peek" /\ call.ptr = nullptr
    /\ DoPull(TRUE, tmp)
    /\ tmp' = call'.dest
    /\ phase' = "peekloop"
    /\ sent' = <<>>
    /\ rcvd' = <<>>
    /\ UNCHANGED cpu

\* A caller that pulls, after its adds, as many times as it added.
DrainPull ==
    /\ phase \in {"fill", "drain"}
    /\ Len(rcvd) < Len(sent)
    /\ \E d0 \in Values :
          /\ DoPull(TRUE, d0)
          /\ rcvd' = Append(rcvd, IF call'.ret THEN call'.dest ELSE 0)
    /\ phase' = "drain"
    /\ UNCHANGED <<sent, tmp, cpu>>

\* The caller's peek loop: peek(j) for j = 0, 1, ... until it returns null,
\* from any state of the buffer; sent collects the values seen.
PeekLoopStep ==
    /\ phase \in {"free", "peekloop"}
    /\ DoPeek(Len(sent))
    /\ IF call'.ptr = nullptr
       THEN phase' = "pullloop" /\ sent' = sent
       ELSE phase' = "peekloop" /\ sent' = Append(sent, buf[call'.ptr])
    /\ UNCHANGED <<rcvd, tmp, cpu>>

\* The caller's pull loop that follows: while (!q.empty()) q.pull(&pulled).
PullLoopStep ==
    /\ phase = "pullloop"
    /\ ~empty
    /\ \E d0 \in Values :
          /\ DoPull(TRUE, d0)
          /\ rcvd' = Append(rcvd, IF call'.ret THEN call'.dest ELSE 0)
    /\ UNCHANGED <<phase, sent, tmp, cpu>>

PullLoopExit ==
    /\ phase = "pullloop"
    /\ empty
    /\ call' = Call("empty", 0, FALSE, 0, FALSE, 0, 0, empty, nullptr)
    /\ phase' = "drained"
    /\ UNCHANGED <<Size, buf, head, numElements, sent, rcvd, tmp, cpu>>

\* One more pull after the loop has ended.
FurtherPull ==
    /\ phase = "drained"
    /\ \E d0 \in Values : DoPull(TRUE, d0)
    /\ phase' = "done"
    /\ UNCHANGED <<sent, rcvd, tmp, cpu>>

Next ==
    \/ Clear
    \/ Push
    \/ Add
    \/ Peek
    \/ Poll
    \/ PollDiscard
    \/ Pull
    \/ FillAdd
    \/ FillElsePeek
    \/ FillElsePull
    \/ DrainPull
    \/ PeekLoopStep
    \/ PullLoopStep
    \/ PullLoopExit
    \/ FurtherPull

Spec == Init /\ [][Next]_vars

\* ------------------------------------------------- the buffer as a FIFO

\* Index of the oldest element as the data model states it.
AbsTail == (head - numElements + Size) % Size

\* The buffered elements, oldest first.
AbsSeq == [i \in 1 .. numElements |-> buf[(AbsTail + i - 1) % Size]]

Slots == 0 .. Size - 1

\* len(), is_empty() and is_full() as the data model states them.
Count == numElements

IsEmpty == Count = 0

IsFull == Count = Size

IsPush(c) == c.op \in {"push", "add"}

IsPop(c) == c.op \in {"poll", "poll_discard", "pull"}

\* The value the pointer p refers to in (function) store b; 0 when p is no
\* slot of the store.
Deref(b, p) == IF p \in DOMAIN b THEN b[p] ELSE 0

\* ------------------------------------------- mainline and interrupt handler

\* The critical-section primitive the member functions bracket their bodies
\* with: save the interrupt-enable state and disable interrupts; restore the
\* saved state.
RB_ATOMIC_START == saved' = ie /\ ie' = FALSE

RB_ATOMIC_END == ie' = saved /\ UNCHANGED saved

\* _buf[i] read: the slot's value; an index outside the array reads an
\* indeterminate value.
Load(i) == IF i \in Slots THEN {buf[i]} ELSE Values

\* poll(destination) in the current state: what it leaves, the copy out of
\* the tail slot read as Load reads it.
Polled(d0) ==
    IF empty \/ tail_index \in Slots
    THEN {poll(d0)}
    ELSE {[destination |-> v, numElements |-> USub(numElements, 1),
           ret |-> TRUE] : v \in Values}

\* The calls mainline makes, member function by member function.
MCalls(ie0) ==
    {MCall("clear", 0, FALSE, 0, 0, ie0)}
    \cup {MCall("push", obj, force, 0, 0, ie0) :
             obj \in Values, force \in BOOLEAN}
    \cup {MCall("peek", 0, FALSE, index, 0, ie0) : index \in PeekIndices}
    \cup {MCall("poll", 0, FALSE, 0, d0, ie0) : d0 \in Values}
    \cup {MCall("poll_discard", 0, FALSE, 0, 0, ie0)}

\* phase "mix": mainline and the handler call anything; "isr_push": the
\* handler only pushes without force and mainline only polls; "isr_pop": the
\* roles swapped.
MainMay(c) ==
    \/ phase = "mix"
    \/ phase = "isr_push" /\ c.op = "poll"
    \/ phase = "isr_pop" /\ c.op = "push" /\ ~c.force /\ Len(sent) < MaxLog

\* What the call c leaves when it runs as a whole in the current state.
WholeOf(c) ==
    CASE c.op = "clear" ->
           Whole(buf, clear.head, clear.numElements, FALSE, nullptr, c.d0)
      [] c.op = "push" ->
           LET r == push(c.obj, c.force)
           IN  Whole(r.buf, r.head, r.numElements, r.ret, nullptr, c.d0)
      [] c.op = "peek" ->
           Whole(buf, head, numElements, FALSE, peek(c.index), c.d0)
      [] c.op = "poll" ->
           LET r == CHOOSE x \in Polled(c.d0) : TRUE
           IN  Whole(buf, head, r.numElements, r.ret, nullptr, r.destination)
      [] c.op = "poll_discard" ->
           LET r == poll_discard
           IN  Whole(buf, head, r.numElements, r.ret, nullptr, c.d0)

Body == {"clear1", "clear2", "push1", "push2", "push3", "push4", "peek1",
         "poll1", "poll2", "poll3", "polld1", "end"}

Touch == acc' = [op |-> m.op, held |-> ~ie]

RunInit ==
    /\ Size \in 1 .. MaxSize
    /\ buf \in [0 .. Size - 1 -> Values]
    /\ head = clear.head
    /\ numElements = clear.numElements
    /\ call = Call("RingBufCPP", 0, FALSE, 0, FALSE, 0, 0, FALSE, nullptr)
    /\ sent = <<>>
    /\ rcvd = <<>>
    /\ tmp = -1
    /\ CpuInit

\* Mainline and the handler call any member function.
ISRInit ==
    /\ RunInit
    /\ phase = "mix"

\* One side pushes without force, the other polls.
SPSCInit ==
    /\ RunInit
    /\ phase \in {"isr_push", "isr_pop"}

\* Mainline calls a member function, with interrupts enabled or disabled by
\* the caller: arguments and locals are set up (bool ret = false).
M_Call ==
    /\ pc = "idle"
    /\ \E ie0 \in BOOLEAN : \E c \in MCalls(ie0) :
          /\ MainMay(c)
          /\ ie' = ie0
          /\ m' = c
    /\ acc' = [op |-> "none", held |-> TRUE]
    /\ pc' = "start"
    /\ UNCHANGED <<rb, call, prog, saved, lin>>

\* size(), empty() and full() called by mainline.
M_Query ==
    /\ pc = "idle"
    /\ phase = "mix"
    /\ \E ie0 \in BOOLEAN, q \in {"size", "empty", "full"} :
          /\ ie' = ie0
          /\ m' = [MCall(q, 0, FALSE, 0, 0, ie0) EXCEPT
                      !.n = IF q = "size" THEN size ELSE 0,
                      !.ret = IF q = "empty" THEN empty
                              ELSE IF q = "full" THEN full ELSE FALSE]
          /\ acc' = [op |-> q, held |-> ~ie0]
    /\ UNCHANGED <<rb, call, prog, saved, pc, lin>>

\* The body entered with the interrupt-enable state left as it was.
M_AtomicStart_missing ==
    /\ pc = "start"
    /\ lin' = WholeOf(m)
    /\ pc' = CASE m.op = "clear" -> "clear1"
               [] m.op = "push" -> "push1"
               [] m.op = "peek" -> "peek1"
               [] m.op = "poll" -> "poll1"
               [] m.op = "poll_discard" -> "polld1"
    /\ UNCHANGED <<rb, call, prog, ie, saved, m, acc>>

\* RB_ATOMIC_START at the head of the body.
M_AtomicStart ==
    /\ pc = "start"
    /\ RB_ATOMIC_START
    /\ lin' = WholeOf(m)
    /\ pc' = CASE m.op = "clear" -> "clear1"
               [] m.op = "push" -> "push1"
               [] m.op = "peek" -> "peek1"
               [] m.op = "poll" -> "poll1"
               [] m.op = "poll_discard" -> "polld1"
    /\ UNCHANGED <<rb, call, prog, m, acc>>

\* clear: _numElements = 0;
M_Clear1 ==
    /\ pc = "clear1"
    /\ numElements' = 0
    /\ Touch
    /\ pc' = "clear2"
    /\ UNCHANGED <<Size, buf, head, call, prog, ie, saved, m, lin>>

\* clear: _head = 0;
M_Clear2 ==
    /\ pc = "clear2"
    /\ head' = 0
    /\ Touch
    /\ pc' = "end"
    /\ UNCHANGED <<Size, buf, numElements, call, prog, ie, saved, m, lin>>

\* push: const bool space = !full(); if (space || force)
M_Push1 ==
    /\ pc = "push1"
    /\ m' = [m EXCEPT !.space = ~full]
    /\ Touch
    /\ pc' = IF m'.space \/ m.force THEN "push2" ELSE "end"
    /\ UNCHANGED <<rb, call, prog, ie, saved, lin>>

\* push: _buf[_head++] = obj;
M_Push2 ==
    /\ pc = "push2"
    /\ buf' = [buf EXCEPT ![head] = m.obj]
    /\ head' = UAdd(head, 1)
    /\ Touch
    /\ pc' = "push3"
    /\ UNCHANGED <<Size, numElements, call, prog, ie, saved, m, lin>>

\* push: if (_head >= max_size()) _head = 0;
M_Push3 ==
    /\ pc = "push3"
    /\ head' = IF head >= max_size THEN 0 ELSE head
    /\ Touch
    /\ pc' = "push4"
    /\ UNCHANGED <<Size, buf, numElements, call, prog, ie, saved, m, lin>>

\* push: if (space) _numElements++; ret = true;
M_Push4 ==
    /\ pc = "push4"
    /\ numElements' = IF m.space THEN UAdd(numElements, 1) ELSE numElements
    /\ m' = [m EXCEPT !.ret = TRUE]
    /\ sent' = IF phase = "isr_pop" /\ m.space THEN Append(sent, m.obj)
               ELSE sent
    /\ Touch
    /\ pc' = "end"
    /\ UNCHANGED <<Size, buf, head, call, phase, rcvd, tmp, ie, saved, lin>>

\* peek: if (index < size()) ret = &_buf[(tail_index() + index) % max_size()];
M_Peek1 ==
    /\ pc = "peek1"
    /\ m' = [m EXCEPT !.ptr = IF m.index < size
                                THEN UMod(UAdd(tail_index, m.index), max_size)
                                ELSE nullptr]
    /\ Touch
    /\ pc' = "end"
    /\ UNCHANGED <<rb, call, prog, ie, saved, lin>>

\* poll(destination): if (!empty())
M_Poll1 ==
    /\ pc = "poll1"
    /\ Touch
    /\ pc' = IF ~empty THEN "poll2" ELSE "end"
    /\ UNCHANGED <<rb, call, prog, ie, saved, m, lin>>

\* poll(destination): destination = _buf[tail_index()];
M_Poll2 ==
    /\ pc = "poll2"
    /\ \E v \in Load(tail_index) :
          m' = [m EXCEPT !.dest = v]
    /\ Touch
    /\ pc' = "poll3"
    /\ UNCHANGED <<rb, call, prog, ie, saved, lin>>

\* poll(destination): _numElements--; ret = true;
M_Poll3 ==
    /\ pc = "poll3"
    /\ numElements' = USub(numElements, 1)
    /\ m' = [m EXCEPT !.ret = TRUE]
    /\ rcvd' = IF phase = "isr_push" THEN Append(rcvd, m.dest) ELSE rcvd
    /\ Touch
    /\ pc' = "end"
    /\ UNCHANGED <<Size, buf, head, call, phase, sent, tmp, ie, saved, lin>>

\* poll(): if (!empty()) { _numElements--; ret = true; }
M_PollDiscard1 ==
    /\ pc = "polld1"
    /\ numElements' = IF ~empty THEN USub(numElements, 1) ELSE numElements
    /\ m' = [m EXCEPT !.ret = ~empty]
    /\ Touch
    /\ pc' = "end"
    /\ UNCHANGED <<Size, buf, head, call, prog, ie, saved, lin>>

\* The saved state restored only on the path where the call succeeded.
M_AtomicEnd_success_only ==
    /\ pc = "end"
    /\ IF m.ret \/ m.ptr # nullptr \/ m.op = "clear"
       THEN RB_ATOMIC_END
       ELSE UNCHANGED <<ie, saved>>
    /\ lin' = NoWhole
    /\ m' = [MCall(m.op, 0, FALSE, 0, 0, m.ie0) EXCEPT
                !.ret = m.ret, !.ptr = m.ptr]
    /\ pc' = "idle"
    /\ UNCHANGED <<rb, call, prog, acc>>

\* RB_ATOMIC_END at the end of the body, on the one path every branch of the
\* body joins; the function then returns its result and its frame is dropped.
M_AtomicEnd ==
    /\ pc = "end"
    /\ RB_ATOMIC_END
    /\ lin' = NoWhole
    /\ m' = [MCall(m.op, 0, FALSE, 0, 0, m.ie0) EXCEPT
                !.ret = m.ret, !.ptr = m.ptr]
    /\ pc' = "idle"
    /\ UNCHANGED <<rb, call, prog, acc>>

\* The interrupt handler preempts mainline wherever interrupts are enabled
\* and runs one member function to its end.
IsrTouch == acc' = [op |-> "isr", held |-> TRUE]

Isr_Clear ==
    /\ ie
    /\ phase = "mix"
    /\ head' = clear.head
    /\ numElements' = clear.numElements
    /\ IsrTouch
    /\ UNCHANGED <<Size, buf, call, prog, ie, saved, pc, m, lin>>

Isr_Push ==
    /\ ie
    /\ \E obj \in Values, force \in BOOLEAN :
          /\ \/ phase = "mix"
             \/ phase = "isr_push" /\ ~force /\ Len(sent) < MaxLog
          /\ LET r == push(obj, force)
             IN  /\ buf' = r.buf
                 /\ head' = r.head
                 /\ numElements' = r.numElements
                 /\ sent' = IF phase = "isr_push" /\ r.ret
                            THEN Append(sent, obj) ELSE sent
    /\ IsrTouch
    /\ UNCHANGED <<Size, call, phase, rcvd, tmp, ie, saved, pc, m, lin>>

Isr_Peek ==
    /\ ie
    /\ phase = "mix"
    /\ \E index \in PeekIndices : peek(index) \in Slots \cup {nullptr}
    /\ IsrTouch
    /\ UNCHANGED <<rb, call, prog, ie, saved, pc, m, lin>>

Isr_Poll ==
    /\ ie
    /\ phase \in {"mix", "isr_pop"}
    /\ \E d0 \in Values : \E r \in Polled(d0) :
              /\ numElements' = r.numElements
              /\ rcvd' = IF phase = "isr_pop" /\ r.ret
                         THEN Append(rcvd, r.destination) ELSE rcvd
    /\ IsrTouch
    /\ UNCHANGED <<Size, buf, head, call, phase, sent, tmp, ie, saved, pc, m, lin>>

Isr_PollDiscard ==
    /\ ie
    /\ phase = "mix"
    /\ numElements' = poll_discard.numElements
    /\ IsrTouch
    /\ UNCHANGED <<Size, buf, head, call, prog, ie, saved, pc, m, lin>>

ISRNext ==
    \/ M_Call
    \/ M_Query
    \/ M_AtomicStart
    \/ M_Clear1
    \/ M_Clear2
    \/ M_Push1
    \/ M_Push2
    \/ M_Push3
    \/ M_Push4
    \/ M_Peek1
    \/ M_Poll1
    \/ M_Poll2
    \/ M_Poll3
    \/ M_PollDiscard1
    \/ M_AtomicEnd
    \/ Isr_Clear
    \/ Isr_Push
    \/ Isr_Peek
    \/ Isr_Poll
    \/ Isr_PollDiscard

SpecISR == ISRInit /\ [][ISRNext]_vars

SPSCNext ==
    \/ M_Call
    \/ M_AtomicStart
    \/ M_Push1
    \/ M_Push2
    \/ M_Push3
    \/ M_Push4
    \/ M_Poll1
    \/ M_Poll2
    \/ M_Poll3
    \/ M_AtomicEnd
    \/ Isr_Push
    \/ Isr_Poll

SpecSPSC == SPSCInit /\ [][SPSCNext]_vars

\* The pull loop runs while the buffer is not empty and ends when it is.
SpecDrain ==
    /\ Spec
    /\ WF_vars(PullLoopStep)
    /\ WF_vars(PullLoopExit)

\* ---------------------------------------------------------------- claims

\* C1: in every reachable state 0 <= count <= N and 0 <= head < N, so len()
\* never exceeds capacity() and never goes below 0.
C1_Bounds ==
    /\ Size >= 1
    /\ numElements \in 0 .. Size
    /\ head \in 0 .. Size - 1
    /\ size <= max_size
    /\ size >= 0

\* C1 witness: a forced push on a full buffer of the largest capacity has
\* wrapped head to 0 with count still N.
C1_Witness ==
    /\ call.op = "push" /\ call.force /\ call.ret
    /\ Size = MaxSize
    /\ numElements = Size
    /\ head = 0

\* C2: the buffer refines a bounded FIFO sequence. With AbsSeq as abstract
\* state: a successful non-forced push appends its value; a forced push on a
\* full buffer removes the first element and appends its value; a successful
\* pop removes the first element; clear gives the empty sequence; peek and
\* rejected push and pop leave the sequence unchanged.
C2_Step ==
    LET c == call' IN
    /\ (IsPush(c) /\ c.ret /\ ~c.force) => AbsSeq' = Append(AbsSeq, c.obj)
    /\ (IsPush(c) /\ c.force /\ IsFull) =>
           /\ c.ret
           /\ AbsSeq' = Append(Tail(AbsSeq), c.obj)
    /\ (IsPop(c) /\ c.ret) => (AbsSeq # <<>> /\ AbsSeq' = Tail(AbsSeq))
    /\ c.op = "clear" => AbsSeq' = <<>>
    /\ c.op = "peek" => AbsSeq' = AbsSeq
    /\ ((IsPush(c) \/ IsPop(c)) /\ ~c.ret) => AbsSeq' = AbsSeq

C2_Refinement == [][C2_Step]_vars

\* C2 witness: a forced push on a full buffer whose elements wrap around the
\* end of the store has dropped the first element and appended its value.
C2_Witness ==
    /\ call.op = "push" /\ call.force /\ call.ret
    /\ Size = MaxSize
    /\ numElements = Size
    /\ head = 1
    /\ AbsSeq[Size] = call.obj
    /\ AbsSeq[1] # AbsSeq[2]

\* C3: starting from an empty buffer at any head position, N adds of
\* distinct values without force all return true, and N pulls then all
\* return true and deliver the same values in the same order, after which
\* the buffer is empty.
C3_RoundTrip ==
    /\ phase = "fill" => (call.ret /\ numElements = Len(sent))
    /\ phase = "else" =>
           /\ call.op = "add" => ~call.ret
           /\ Len(sent) = Size
           /\ IsFull
    /\ (phase = "drain" /\ Len(sent) = Size) =>
           /\ call.ret
           /\ rcvd = SubSeq(sent, 1, Len(rcvd))
           /\ numElements = Size - Len(rcvd)
           /\ Len(rcvd) = Size => (rcvd = sent /\ empty /\ IsEmpty)

\* C3 witness: N values written across the end of the store have all been
\* pulled again.
C3_Witness ==
    /\ phase = "drain"
    /\ Size = MaxSize
    /\ Len(sent) = Size
    /\ rcvd = sent
    /\ head = 1

\* C4: after adding v0..vk (k < N) to an empty buffer with nothing in
\* between, peek(i) refers to a slot holding vi for 0 <= i <= k and
\* peek(k+1) is null.
C4_PeekOrder ==
    phase = "fill" =>
        /\ \A i \in 1 .. Len(sent) :
              /\ peek(i - 1) \in Slots
              /\ buf[peek(i - 1)] = sent[i]
        /\ peek(Len(sent)) = nullptr

\* C4 witness: the values added lie across the end of the store.
C4_Witness ==
    /\ phase = "fill"
    /\ Size = MaxSize
    /\ Len(sent) = Size - 1
    /\ head = 1

\* C5: push(v, force) on a buffer that is not full (len() = k < N) returns
\* true for either force, writes v into store[head], sets head to
\* (head + 1) mod N, makes len() = k + 1 with peek(k) referring to v, and
\* leaves peek(i), i < k, referring to the same values as before.
C5_Step ==
    \A k \in 0 .. MaxSize :
        (IsPush(call') /\ ~IsFull /\ k = Count) =>
            /\ call'.ret
            /\ buf' = [buf EXCEPT ![head] = call'.obj]
            /\ head' = (head + 1) % Size
            /\ numElements' = k + 1
            /\ Deref(buf', peek(k)') = call'.obj
            /\ \A i \in 0 .. k - 1 :
                  /\ peek(i)' \in Slots
                  /\ Deref(buf', peek(i)') = Deref(buf, peek(i))

C5_PushNotFull == [][C5_Step]_vars

\* C5 witness: a forced push on a non-full buffer was accepted at the last
\* slot of the store.
C5_Witness ==
    /\ call.op = "push" /\ call.force /\ call.ret
    /\ Size = MaxSize
    /\ numElements = 2
    /\ head = 0
\* C6: push(v, force = false), and add, returns false exactly when the
\* buffer is full at the call; when it returns false, head, count and every
\* slot of the store are unchanged, so len() and every peek(i) are as before.
C6_Step ==
    (IsPush(call') /\ ~call'.force) =>
        /\ call'.ret = FALSE <=> IsFull
        /\ call'.ret = FALSE =>
              /\ UNCHANGED <<buf, head, numElements>>
              /\ size' = size
              /\ \A i \in PeekIndices : peek(i)' = peek(i)

C6_PushRejected == [][C6_Step]_vars

\* C6 witness: add without force was rejected by a full buffer.
C6_Witness ==
    /\ call.op = "add" /\ ~call.force /\ ~call.ret
    /\ Size = MaxSize
    /\ numElements = Size
    /\ head = 2

\* C7: push(v, force = true) on a full buffer of capacity N returns true,
\* leaves len() = N and discards exactly the oldest element: afterwards
\* peek(i) refers to what peek(i+1) referred to before, 0 <= i < N-1, and
\* peek(N-1) refers to v.
C7_Step ==
    (IsPush(call') /\ call'.force /\ IsFull) =>
        /\ call'.ret
        /\ size' = Size
        /\ \A i \in 0 .. Size - 2 :
              /\ peek(i)' \in Slots
              /\ peek(i + 1) \in Slots
              /\ Deref(buf', peek(i)') = Deref(buf, peek(i + 1))
        /\ peek(Size - 1)' \in Slots
        /\ Deref(buf', peek(Size - 1)') = call'.obj

C7_ForcedPush == [][C7_Step]_vars

\* C7 witness: capacity 3 holding 1, 2, 3 from slot 0 on; the forced push
\* of 1 overwrote slot 0 and gave 2, 3, 1.
C7_Witness ==
    /\ call.op = "push" /\ call.force /\ call.ret /\ call.obj = 1
    /\ Size = 3
    /\ numElements = 3
    /\ head = 1
    /\ AbsSeq = <<2, 3, 1>>
    /\ peek(0) = 1 /\ peek(1) = 2 /\ peek(2) = 0

\* C8: a pop on an empty buffer (poll(destination), poll(), pull(ptr))
\* returns false, leaves the destination's content as it was, and leaves
\* head, count and the store unchanged.
C8_Step ==
    (IsPop(call') /\ IsEmpty) =>
        /\ call'.ret = FALSE
        /\ call'.dest = call'.dest0
        /\ UNCHANGED <<buf, head, numElements>>

C8_PopEmpty == [][C8_Step]_vars

\* C8 witness: pull(&x) failed on a buffer that was filled and drained, and
\* x kept a value that differs from the tail slot's.
C8_Witness ==
    /\ call.op = "pull" /\ call.hasDest /\ ~call.ret
    /\ numElements = 0
    /\ head = 1
    /\ call.dest = call.dest0
    /\ call.dest # buf[tail_index]

\* C9: a pop on a non-empty buffer returns true, copies to the destination
\* (when there is one) the value peek(0) referred to before the call,
\* decrements count by exactly 1, and afterwards peek(i) refers to what
\* peek(i+1) referred to before, 0 <= i < len(); the variants without a
\* destination change the state in the same way.
C9_Step ==
    (IsPop(call') /\ ~IsEmpty) =>
        /\ call'.ret
        /\ call'.hasDest => (peek(0) \in Slots /\ call'.dest = buf[peek(0)])
        /\ numElements' = numElements - 1
        /\ UNCHANGED <<buf, head>>
        /\ \A i \in 0 .. Size - 1 :
              i < size' =>
                  /\ peek(i)' \in Slots
                  /\ peek(i + 1) \in Slots
                  /\ Deref(buf', peek(i)') = Deref(buf, peek(i + 1))

C9_PopNonEmpty == [][C9_Step]_vars

\* C9 witness: poll(destination) took the oldest of three elements that lie
\* across the end of the store, and it differs from the newest.
C9_Witness ==
    /\ call.op = "poll" /\ call.ret
    /\ Size = MaxSize
    /\ numElements = Size - 1
    /\ head = 1
    /\ call.dest = buf[1]
    /\ call.dest # buf[0]
    /\ call.dest # call.dest0

\* C10: peek(index) returns null exactly when index >= len() at the call,
\* for every index; otherwise it returns the slot (oldest + index) mod N;
\* in both cases head, count and the store are unchanged.
C10_Step ==
    call'.op = "peek" =>
        /\ call'.ptr = nullptr <=> call'.index >= Count
        /\ call'.ptr # nullptr =>
              call'.ptr = (AbsTail + call'.index) % Size
        /\ UNCHANGED <<buf, head, numElements>>

C10_Peek == [][C10_Step]_vars

\* C10 witness: peek of the newest element of a full buffer returned a slot
\* before the tail's (the index wrapped around the end of the store).
C10_Witness ==
    /\ call.op = "peek" /\ call.ptr # nullptr
    /\ Size = MaxSize
    /\ numElements = Size
    /\ call.index = Size - 1
    /\ head = 2
    /\ call.ptr = 1
\* C11: clear() from any reachable state sets count = 0 and head = 0, the
\* state the constructor leaves but for the stale store, so is_empty() is
\* true and len() is 0; and the return value, len() and value peeked or
\* popped of every call are fixed by the capacity, head, count, the buffered
\* FIFO content and the arguments alone, never by a stale slot, so every
\* later sequence of calls behaves as on a freshly constructed buffer.
C11_Step ==
    LET c == call' IN
    /\ c.op = "clear" =>
           /\ head' = 0 /\ numElements' = 0
           /\ empty' /\ size' = 0
           /\ AbsSeq' = <<>>
    /\ IsPush(c) =>
           /\ c.ret = (Len(AbsSeq) < Size \/ c.force)
           /\ head' = IF c.ret THEN (head + 1) % Size ELSE head
           /\ AbsSeq' = IF ~c.ret THEN AbsSeq
                        ELSE IF Len(AbsSeq) < Size THEN Append(AbsSeq, c.obj)
                        ELSE Append(Tail(AbsSeq), c.obj)
    /\ IsPop(c) =>
           /\ c.ret = (AbsSeq # <<>>)
           /\ (c.ret /\ c.hasDest) => c.dest = Head(AbsSeq)
           /\ (~c.ret \/ ~c.hasDest) => c.dest = c.dest0
           /\ head' = head
           /\ AbsSeq' = IF c.ret THEN Tail(AbsSeq) ELSE AbsSeq
    /\ c.op = "peek" =>
           /\ (c.ptr # nullptr) = (c.index < Len(AbsSeq))
           /\ c.ptr # nullptr =>
                 /\ c.ptr = (head - Len(AbsSeq) + Size + c.index) % Size
                 /\ Deref(buf, c.ptr) = AbsSeq[c.index + 1]
           /\ head' = head
           /\ AbsSeq' = AbsSeq
    /\ size' = Len(AbsSeq')

C11_ClearAsFresh == [][C11_Step]_vars

\* C11 witness: clear() on a buffer of the largest capacity has left head
\* and count 0 and stale values in every slot.
C11_Witness ==
    /\ call.op = "clear"
    /\ Size = MaxSize
    /\ head = 0 /\ numElements = 0
    /\ buf[0] # buf[1] /\ buf[1] # buf[2]

\* C15: in every reachable state and for every argument, each store index a
\* call reads or writes lies in 0..N-1: the head push writes at, the tail
\* slot a pop from a non-empty buffer reads, and the slot peek returns for an
\* index below len(); and every call is possible (it returns a value).
C15_InRange ==
    /\ head \in Slots
    /\ ~IsEmpty => tail_index \in Slots
    /\ \A i \in PeekIndices :
          /\ peek(i) \in Slots \cup {nullptr}
          /\ i < Count => peek(i) \in Slots
    /\ \A obj \in Values, force \in BOOLEAN :
          push(obj, force).ret \in BOOLEAN
    /\ \A d0 \in Values : poll(d0).ret \in BOOLEAN
    /\ poll_discard.ret \in BOOLEAN
    /\ phase = "free" =>
          /\ ENABLED Clear /\ ENABLED Push /\ ENABLED Add /\ ENABLED Peek
          /\ ENABLED Poll /\ ENABLED PollDiscard /\ ENABLED Pull

\* C15 witness: capacity 1, full: push on full, pop and peek of any index
\* all stay in slot 0.
C15_Witness ==
    /\ Size = 1
    /\ numElements = 1
    /\ call.op = "peek" /\ call.index = SIZE_MAX /\ call.ptr = nullptr

\* C19: only push writes the store, and only one slot: pop (every variant),
\* peek and clear leave every slot as it was and pop leaves head as it was;
\* a successful push changes the slot at the head before the call and no
\* other, a rejected push none; so a slot holding a buffered element is
\* overwritten only by a forced push on a full buffer, and it is the slot of
\* the oldest element.
C19_Step ==
    LET c == call'
        valid == {(AbsTail + i) % Size : i \in 0 .. Count - 1}
    IN
    /\ (IsPop(c) \/ c.op = "peek" \/ c.op = "clear") => buf' = buf
    /\ IsPop(c) => head' = head
    /\ (IsPush(c) /\ c.ret) => buf' = [buf EXCEPT ![head] = c.obj]
    /\ (IsPush(c) /\ ~c.ret) => buf' = buf
    /\ (IsPush(c) /\ c.ret /\ head \in valid) =>
           /\ c.force
           /\ IsFull
           /\ head = AbsTail
    /\ \A s \in Slots : buf'[s] # buf[s] => (IsPush(c) /\ c.ret /\ s = head)

C19_Frame == [][C19_Step]_vars

\* C19 witness: a forced push on a full buffer has overwritten the slot of
\* the oldest element (slot 1) with a different value.
C19_Witness ==
    /\ call.op = "push" /\ call.force /\ call.ret
    /\ Size = MaxSize
    /\ numElements = Size
    /\ head = 2
    /\ buf[1] = call.obj
    /\ buf[1] # buf[0] /\ buf[1] # buf[2]

\* C20: tail_index(), computed in size_t arithmetic, equals in every
\* reachable state the result of the same expression over the integers (no
\* subtraction wraps below zero, no addition overflows), equals
\* (head - count + N) mod N, equals head when count = N, and lies in 0..N-1.
C20_TailIndex ==
    /\ tail_index =
          (IF numElements >= Size THEN head
           ELSE IF head >= numElements THEN head - numElements
                ELSE Size + head - numElements)
    /\ (~IsFull /\ head < numElements) =>
          (Size + head < SIZE_MOD /\ Size + head >= numElements)
    /\ tail_index = AbsTail
    /\ IsFull => tail_index = head
    /\ tail_index \in Slots

\* C20 witness: head < count after a wrap-around on a buffer that is not
\* full, so the tail is N + head - count.
C20_Witness ==
    /\ Size = MaxSize
    /\ head = 1
    /\ numElements = 2
    /\ tail_index = 2
\* C17: in any reachable state, peek(0), peek(1), ... until peek returns
\* null visits exactly size() elements, and the values seen are, in the same
\* order, the values that pulling until empty() then delivers.
C17_PeekDrain ==
    /\ phase = "peekloop" => Len(sent) <= Count
    /\ phase \in {"pullloop", "drained"} =>
          /\ Len(sent) = Count + Len(rcvd)
          /\ rcvd = SubSeq(sent, 1, Len(rcvd))
    /\ phase = "drained" => rcvd = sent

\* C17 witness: three elements lying across the end of the store, not all
\* equal, were seen by the peek loop and then delivered by the pull loop.
C17_Witness ==
    /\ phase = "drained"
    /\ Size = MaxSize
    /\ head = 1
    /\ Len(sent) = Size
    /\ rcvd = sent
    /\ sent[1] # sent[2]

\* C18: from any reachable state with size() = k, the loop
\* while (!empty()) pull(&x) ends after exactly k iterations, every pull in
\* it returns true, the buffer is empty afterwards, and a further pull
\* returns false.
C18_Inv ==
    /\ phase = "pullloop" =>
          /\ Len(rcvd) + Count = Len(sent)
          /\ \A i \in 1 .. Len(rcvd) : rcvd[i] # 0
          /\ (call.op = "pull" => call.ret)
    /\ phase = "drained" =>
          /\ Len(rcvd) = Len(sent)
          /\ \A i \in 1 .. Len(rcvd) : rcvd[i] # 0
          /\ IsEmpty
    /\ phase = "done" =>
          /\ call.op = "pull" /\ ~call.ret
          /\ call.dest = call.dest0
          /\ IsEmpty

C18_DrainLoop ==
    /\ []C18_Inv
    /\ (phase = "pullloop") ~> (phase = "drained")

\* C18 witness: the loop drained a full buffer of the largest capacity and
\* the further pull returned false.
C18_Witness ==
    /\ phase = "done"
    /\ Size = MaxSize
    /\ Len(sent) = Size
    /\ Len(rcvd) = Size
    /\ ~call.ret
    /\ head = 2

\* C12: with an interrupt handler that may preempt mainline wherever
\* interrupts are enabled and run any of clear, push, peek and pop, each
\* mainline clear, push, peek and pop takes effect as a whole: while the call
\* is between its first and last step no handler step is possible, so the
\* handler never sees store[head] written or head advanced with count not yet
\* updated, and when the body is done the store, head, count and the results
\* are those of the whole operation applied to the state the body started
\* in, which is the state every handler call before it left and every handler
\* call after it starts from.
C12_Atomic ==
    /\ pc \in Body =>
           /\ ~ie
           /\ ~ENABLED (Isr_Clear \/ Isr_Push \/ Isr_Peek \/ Isr_Poll
                           \/ Isr_PollDiscard)
    /\ pc = "end" =>
           /\ buf = lin.buf
           /\ head = lin.head
           /\ numElements = lin.numElements
           /\ m.ret = lin.ret
           /\ m.ptr = lin.ptr
           /\ m.dest = lin.dest

\* C12 witness: mainline, called with interrupts enabled, has finished the
\* body of a push that filled the buffer and wrapped head.
C12_Witness ==
    /\ pc = "end"
    /\ m.op = "push" /\ m.ie0 /\ m.ret
    /\ Size > 1
    /\ head = 0
    /\ numElements = Size
    /\ acc.op = "push"
    /\ phase = "mix"

\* C13: every call of clear, push, peek and either poll leaves the critical
\* section on the path it takes, taken or rejected alike: when the call
\* returns, the interrupt-enable state is the one the caller had before the
\* call, so interrupts enabled before a call are enabled after it and
\* interrupts disabled before it stay disabled.
C13_Restored ==
    /\ (pc = "idle" /\ m.op \in {"clear", "push", "peek", "poll", "poll_discard"})
           => ie = m.ie0
    /\ (pc = "idle" /\ m.op = "none") => ie

\* C13 witness: a push on a full buffer, called with interrupts enabled, was
\* rejected and has returned with interrupts enabled.
C13_Witness ==
    /\ pc = "idle"
    /\ m.op = "push" /\ ~m.ret
    /\ m.ie0 /\ ie
    /\ IsFull
    /\ phase = "mix"

\* C14: every read or write of head, count or a store slot made by a public
\* operation (size, empty, full, clear, push, peek, poll) happens while the
\* critical section is held, that is with interrupts disabled.
C14_AllInside ==
    acc.held

\* C14 witness: mainline has called size() on a non-empty buffer with
\* interrupts enabled; count was read with the handler free to run.
C14_Witness ==
    /\ pc = "idle"
    /\ m.op = "size" /\ m.n = numElements /\ m.n > 0
    /\ ie
    /\ acc.op = "size" /\ ~acc.held

\* C16: with a handler that only pushes without force and a mainline that
\* only pops, or the roles swapped, under every interleaving the critical
\* sections permit: the values delivered by successful pops are a prefix of
\* the values whose push returned true, accepted pushes minus successful pops
\* equals len() at every moment, and outside a body the buffer holds exactly
\* the accepted values not yet delivered, in order; no accepted element is
\* lost, duplicated or reordered.
C16_SPSC ==
    /\ Len(rcvd) <= Len(sent)
    /\ rcvd = SubSeq(sent, 1, Len(rcvd))
    /\ Len(sent) - Len(rcvd) = Count
    /\ pc \in {"idle", "start", "end"} =>
           AbsSeq = SubSeq(sent, Len(rcvd) + 1, Len(sent))

\* C16 witness: the handler has popped out of a buffer mainline pushes into;
\* MaxLog pushes were accepted, head has wrapped, two values were delivered
\* and the rest is buffered.
C16_Witness ==
    /\ phase = "isr_pop"
    /\ pc = "idle"
    /\ Len(sent) = MaxLog
    /\ Len(rcvd) = 2
    /\ Len(sent) > Size
    /\ Count = MaxLog - 2
    /\ sent[1] # sent[2]

\* C16 witness, roles swapped: mainline has popped what the handler pushed.
C16_WitnessIsrPush ==
    /\ phase = "isr_push"
    /\ pc = "idle"
    /\ m.op = "poll" /\ m.ret
    /\ Len(sent) = MaxLog
    /\ Len(rcvd) >= 2
    /\ rcvd[1] # rcvd[2]
====
